---- MODULE Spec2Model ----
(***************************************************************************)
(* EnergyCalculator (src/EnergyCalculator.py): calculate(x) and            *)
(* calculate_range(start, end), modelled as a step machine whose steps     *)
(* are the statements of the two methods.                                  *)
(*                                                                         *)
(* Python values.  An int is unbounded in Python and the conversion to a   *)
(* C double overflows at 2^1024, so an int is kept as a sign and a         *)
(* magnitude in base-2^15 limbs (BigNat), least significant limb first and *)
(* no leading zero limb.  A float is an IEEE-754 binary64: either          *)
(*   [k |-> "dbl", s, m, e]   the value (-1)^s * m * 2^e, m a BigNat,      *)
(*                            normalised as the format normalises it,      *)
(*   [k |-> "inf", s]         an infinity, or                              *)
(*   [k |-> "sym", f, a]      the result of the libm call (or of the float *)
(*                            operation) f on the arguments a, kept as an  *)
(*                            uninterpreted finite value.                  *)
(* int -> float conversion, float +, *, / are computed exactly as IEEE-754 *)
(* defines them (round to nearest, ties to even).  math.cos and the float  *)
(* power are computed to 2^-Prec and rounded to nearest, which is what a   *)
(* libm accurate to under one ulp returns away from rounding ties.         *)
(* math.sin, math.sqrt, math.log and math.exp are left uninterpreted: no   *)
(* property checked here depends on their digits.                          *)
(***************************************************************************)
EXTENDS Integers, Sequences, FiniteSets, TLC

(***************************************************************************)
(* Natural numbers of any size: CPython's int magnitude.                   *)
(***************************************************************************)
LimbBits == 15
Base == 32768

RECURSIVE NatBits(_)
NatBits(n) == IF n = 0 THEN 0 ELSE 1 + NatBits(n \div 2)

RECURSIVE Pow2(_)
Pow2(n) == IF n = 0 THEN 1 ELSE 2 * Pow2(n - 1)

Limb(a, i) == IF i >= 1 /\ i <= Len(a) THEN a[i] ELSE 0

\* The index of the most significant limb that is not zero, 0 when none is.
BTop(a) ==
    IF \A i \in 1..Len(a) : a[i] = 0 THEN 0
    ELSE CHOOSE i \in 1..Len(a) :
             a[i] # 0 /\ \A j \in (i + 1)..Len(a) : a[j] = 0

BTrim(a) == SubSeq(a, 1, BTop(a))

\* a without its leading zero limbs
BNorm(a) == BTrim(SubSeq(a, 1, Len(a)))

RECURSIVE FromNat(_)
FromNat(n) == IF n = 0 THEN <<>> ELSE <<n % Base>> \o FromNat(n \div Base)

BOne == <<1>>
BIsOdd(a) == a # <<>> /\ a[1] % 2 = 1

\* Numbers of one length compare as their most significant differing limbs.
BCmpTop(a, b) ==
    CHOOSE i \in 1..Len(a) :
        a[i] # b[i] /\ \A j \in (i + 1)..Len(a) : a[j] = b[j]

BCmp(a, b) ==
    IF Len(a) > Len(b) THEN 1
    ELSE IF Len(a) < Len(b) THEN -1
    ELSE IF a = b THEN 0
    ELSE IF a[BCmpTop(a, b)] > b[BCmpTop(a, b)] THEN 1
    ELSE -1

BLe(a, b) == BCmp(a, b) <= 0
BLt(a, b) == BCmp(a, b) < 0

\* The carry into limb i of a + b: some lower limb pair overflows and every
\* pair between it and i passes a carry on.
BAddCarry(a, b, i) ==
    IF \E j \in 1..(i - 1) :
           /\ Limb(a, j) + Limb(b, j) >= Base
           /\ \A k \in (j + 1)..(i - 1) : Limb(a, k) + Limb(b, k) >= Base - 1
    THEN 1 ELSE 0

BAdd(a, b) ==
    BNorm([i \in 1..(IF Len(a) > Len(b) THEN Len(a) + 1 ELSE Len(b) + 1) |->
              (Limb(a, i) + Limb(b, i) + BAddCarry(a, b, i)) % Base])

\* The borrow from limb i of a - b: some lower limb of a is under that of b
\* and no limb between it and i is over.
BSubBorrow(a, b, i) ==
    IF \E j \in 1..(i - 1) :
           /\ Limb(a, j) < Limb(b, j)
           /\ \A k \in (j + 1)..(i - 1) : Limb(a, k) <= Limb(b, k)
    THEN 1 ELSE 0

\* a - b for a >= b
BSub(a, b) ==
    BNorm([i \in 1..Len(a) |->
              (a[i] - Limb(b, i) - BSubBorrow(a, b, i) + Base) % Base])

\* Column k of the schoolbook product: the low halves of the limb products
\* a[i] * b[j] with i + j - 1 = k and the high halves of those with i + j = k.
RECURSIVE BMulCol(_, _, _, _)
BMulCol(a, b, k, i) ==
    IF i > Len(a) THEN 0
    ELSE ((a[i] * Limb(b, k + 1 - i)) % Base)
         + ((a[i] * Limb(b, k - i)) \div Base)
         + BMulCol(a, b, k, i + 1)

\* The columns, each under Base^2, as the sum of their low halves and of
\* their high halves one limb up.
BMulCarry(cols) ==
    BAdd(BNorm([i \in 1..Len(cols) |-> cols[i] % Base]),
         BNorm([i \in 1..(Len(cols) + 1) |-> Limb(cols, i - 1) \div Base]))

BMulCols(a, b) ==
    BMulCarry(SubSeq([k \in 1..(Len(a) + Len(b)) |-> BMulCol(a, b, k, 1)],
                     1, Len(a) + Len(b)))

BMul(a, b) ==
    IF a = <<>> \/ b = <<>> THEN <<>>
    ELSE IF Len(a) <= Len(b) THEN BMulCols(a, b)
    ELSE BMulCols(b, a)

\* a * d for 0 <= d < Base
BMulSmall(a, d) == IF d = 0 THEN <<>> ELSE BMul(<<d>>, a)

\* The limbs i, i-1, ..., 1 of the quotient, r the remainder carried in.
RECURSIVE BDivSmallR(_, _, _, _)
BDivSmallR(a, d, i, r) ==
    IF i = 0 THEN <<>>
    ELSE LET t == r * Base + a[i]
         IN  IF t < d THEN BDivSmallR(a, d, i - 1, t) \o <<0>>
             ELSE BDivSmallR(a, d, i - 1, t % d) \o <<t \div d>>

\* floor(a / d) for 0 < d <= Base
BDivSmall(a, d) == BNorm(BDivSmallR(a, d, Len(a), 0))

\* a * 2^(LimbBits * q + s), 0 <= s < LimbBits: limb i of the product takes
\* the low bits of limb i - q of a and the high bits of limb i - q - 1.
BShlLimbs(a, q, s) ==
    [i \in 1..(Len(a) + q + 1) |->
        ((Limb(a, i - q) * Pow2(s)) % Base)
        + (Limb(a, i - q - 1) \div Pow2(LimbBits - s))]

\* a * 2^k
BShl(a, k) ==
    IF a = <<>> THEN <<>>
    ELSE BNorm(BShlLimbs(a, k \div LimbBits, k % LimbBits))

\* floor(a / 2^(LimbBits * q + s)), 0 <= s < LimbBits, q < Len(a)
BShrLimbs(a, q, s) ==
    [i \in 1..(Len(a) - q) |->
        (Limb(a, i + q) \div Pow2(s))
        + ((Limb(a, i + q + 1) % Pow2(s)) * Pow2(LimbBits - s))]

\* floor(a / 2^k)
BShr(a, k) ==
    IF k \div LimbBits >= Len(a) THEN <<>>
    ELSE BNorm(BShrLimbs(a, k \div LimbBits, k % LimbBits))

\* int.bit_length()
BBitLen(a) ==
    IF a = <<>> THEN 0 ELSE LimbBits * (Len(a) - 1) + NatBits(a[Len(a)])

\* bit i (bit 0 the least significant)
BBit(a, i) == (Limb(a, i \div LimbBits + 1) \div Pow2(i % LimbBits)) % 2

\* whether a has a one among its k low bits
BLowBits(a, k) == a # BShl(BShr(a, k), k)

\* The largest d with bs * d <= r, from an estimate that is not below it.
RECURSIVE BDivFit(_, _, _)
BDivFit(r, bs, d) ==
    IF BLe(BMulSmall(bs, d), r) THEN d ELSE BDivFit(r, bs, d - 1)

\* The estimate of a quotient digit: the top two limbs of r by the top limb
\* of bs, the limb n.  With r < bs * Base and that limb at least Base / 2 it
\* is the digit or up to two more (Knuth, TAOCP 4.3.1, Theorems A and B).
BDivTop(r, bs, n) ==
    IF (Limb(r, n + 1) * Base + Limb(r, n)) \div bs[n] >= Base THEN Base - 1
    ELSE (Limb(r, n + 1) * Base + Limb(r, n)) \div bs[n]

\* Long division in base Base: the quotient's limbs p, p-1, ..., 0.
RECURSIVE BDivLimbs(_, _, _)
BDivLimbs(r, b, p) ==
    IF p < 0 THEN <<>>
    ELSE LET bs == [i \in 1..p |-> 0] \o b
             d  == BDivFit(r, bs, BDivTop(r, bs, Len(bs)))
         IN  IF d = 0 THEN BDivLimbs(r, b, p - 1) \o <<0>>
             ELSE BDivLimbs(BSub(r, BMulSmall(bs, d)), b, p - 1) \o <<d>>

\* floor(a / b) for a >= b, the top limb of b at least Base / 2
BDivNorm(a, b) == BNorm(BDivLimbs(a, b, Len(a) - Len(b)))

\* floor(a / b), b # 0: both are first doubled until the top limb of b is at
\* least Base / 2, which leaves the quotient as it is.
BDiv(a, b) ==
    IF BLt(a, b) THEN <<>>
    ELSE BDivNorm(BShl(a, LimbBits - NatBits(b[Len(b)])),
                  BShl(b, LimbBits - NatBits(b[Len(b)])))

(***************************************************************************)
(* IEEE-754 binary64: CPython's float.                                     *)
(***************************************************************************)
MantBits == 53
MaxExp == 1024
MinExp == -1074

Dbl(s, m, e) == [k |-> "dbl", s |-> s, m |-> m, e |-> e]
Inf(s) == [k |-> "inf", s |-> s]
NaN == [k |-> "nan"]
Sym(f, a) == [k |-> "sym", f |-> f, a |-> a]

DZero == Dbl(0, <<>>, 0)

\* The binary64 nearest to (-1)^s * n * 2^e, ties to even; an infinity when
\* the rounded value reaches 2^MaxExp.  The sign of a zero is not kept.
\*   RoundExp   the exponent of the last mantissa bit of a number of bl bits
\*   RoundQuot  n cut at that bit, sh above bit 0
\*   RoundsUp   whether the bits cut off round the quotient q up
\*   RoundPack  the mantissa m at exponent e1, renormalised when the
\*              rounding carried into a bit beyond the mantissa
RoundExp(e, bl) ==
    IF e + bl - MantBits > MinExp THEN e + bl - MantBits ELSE MinExp

RoundQuot(n, sh) == IF sh <= 0 THEN BShl(n, -sh) ELSE BShr(n, sh)

RoundsUp(n, sh, q) ==
    /\ sh > 0
    /\ BBit(n, sh - 1) = 1
    /\ (BLowBits(n, sh - 1) \/ BIsOdd(q))

RoundFinite(s, m, e) ==
    IF m = <<>> THEN DZero
    ELSE IF e + BBitLen(m) > MaxExp THEN Inf(s)
    ELSE Dbl(s, m, e)

RoundPack(s, m, e1) ==
    IF BBitLen(m) > MantBits THEN RoundFinite(s, BShr(m, 1), e1 + 1)
    ELSE RoundFinite(s, m, e1)

RoundCut(s, n, sh, q, e1) ==
    RoundPack(s, IF RoundsUp(n, sh, q) THEN BAdd(q, BOne) ELSE q, e1)

RoundAt(s, n, e, e1) == RoundCut(s, n, e1 - e, RoundQuot(n, e1 - e), e1)

RoundToDouble(s, n, e) ==
    IF n = <<>> THEN DZero ELSE RoundAt(s, n, e, RoundExp(e, BBitLen(n)))

XorSign(s, t) == IF s = t THEN 0 ELSE 1

\* float * float
DMul(a, b) ==
    IF a.k = "dbl" /\ b.k = "dbl"
    THEN RoundToDouble(XorSign(a.s, b.s), BMul(a.m, b.m), a.e + b.e)
    ELSE IF a.k = "nan" \/ b.k = "nan" \/ a = DZero \/ b = DZero THEN NaN
    ELSE Inf(XorSign(a.s, b.s))

\* float + float: the mantissas am, bm at the common exponent e
AddAligned(sa, am, sb, bm, e) ==
    IF sa = sb THEN RoundToDouble(sa, BAdd(am, bm), e)
    ELSE IF BLe(bm, am) THEN RoundToDouble(sa, BSub(am, bm), e)
    ELSE RoundToDouble(sb, BSub(bm, am), e)

MinExpOf(a, b) == IF a.e < b.e THEN a.e ELSE b.e

DAdd(a, b) ==
    IF a.k = "dbl" /\ b.k = "dbl"
    THEN AddAligned(a.s, BShl(a.m, a.e - MinExpOf(a, b)),
                    b.s, BShl(b.m, b.e - MinExpOf(a, b)), MinExpOf(a, b))
    ELSE IF a.k = "nan" \/ b.k = "nan" THEN NaN
    ELSE IF a.k = "inf" /\ b.k = "inf" THEN (IF a.s = b.s THEN a ELSE NaN)
    ELSE IF a.k = "inf" THEN a
    ELSE b

\* Guard bits of a quotient before it is rounded.
DivGuard == 60

\* float / float for finite operands and a divisor that is not zero (the
\* divisors of the program are the literals 2 and 100000): the quotient q of
\* num = a.m * 2^DivGuard by b.m, a sticky bit for the remainder, rounded
\* once.
DivSticky(num, bm, q) == IF BMul(q, bm) = num THEN <<>> ELSE BOne

DivRound(a, b, num, q) ==
    RoundToDouble(XorSign(a.s, b.s),
                  BAdd(BShl(q, 1), DivSticky(num, b.m, q)),
                  a.e - b.e - DivGuard - 1)

DivQuot(a, b, num) == DivRound(a, b, num, BDiv(num, b.m))

DDiv(a, b) == DivQuot(a, b, BShl(a.m, DivGuard))

(***************************************************************************)
(* math.pi, math.cos and the float power.                                  *)
(***************************************************************************)
\* Fraction bits of the fixed-point numbers math.cos is computed in.
Prec == 128

\* floor(pi * 2^Prec)
PiFix ==
    <<29508, 1760, 10424, 6348, 3377, 13409, 8737, 8117, 804>>

\* math.pi: the binary64 nearest to pi
MathPi == RoundToDouble(0, PiFix, -Prec)

\* The next term of the cosine series: t * r^2 / ((n - 1) * n), r2 = r^2.
CosTerm(t, r2, n) == BDivSmall(BShr(BMul(t, r2), Prec), (n - 1) * n)

\* t_n + t_(n+4) + t_(n+8) + ... for t_n = r^n / n!, summed until the terms
\* vanish: c holds the sum so far, the next term t = t_n, r2 and n.
CosStep(c) ==
    [sum |-> BAdd(c.sum, c.t),
     t |-> CosTerm(CosTerm(c.t, c.r2, c.n + 2), c.r2, c.n + 4),
     r2 |-> c.r2, n |-> c.n + 4]

RECURSIVE CosLoop(_)
CosLoop(c) == IF c.t = <<>> THEN c.sum ELSE CosLoop(CosStep(c))

CosSum(t, r2, n) == CosLoop([sum |-> <<>>, t |-> t, r2 |-> r2, n |-> n])

\* Arguments below 2^CosArgBits are reduced against PiFix with an error
\* under 2^(CosArgBits - Prec).
CosArgBits == 40

\* math.cos of a finite binary64 of magnitude under 2^CosArgBits: with
\* |y| = k*pi + r, 0 <= r < pi, and r1 = min(r, pi - r), the value is
\* +-(1 - r1^2/2! + r1^4/4! - ...), computed in fixed point and rounded to
\* nearest.
\*   CosFix     |y| in fixed point
\*   CosSign    the sign of the value: k odd, or r folded at pi/2, not both
\*   CosValue   the series for r2 = r1^2: its positive less its negative terms
CosFix(y) ==
    IF y.e + Prec >= 0 THEN BShl(y.m, y.e + Prec) ELSE BShr(y.m, -(y.e + Prec))

CosOne == BShl(BOne, Prec)

CosDiff(sgn, pos, neg) ==
    RoundToDouble(sgn, IF BLe(neg, pos) THEN BSub(pos, neg) ELSE <<>>, -Prec)

CosValue(sgn, r2) ==
    IF r2 = <<>> THEN RoundToDouble(sgn, CosOne, -Prec)
    ELSE CosDiff(sgn, CosSum(CosOne, r2, 0),
                 CosSum(CosTerm(CosOne, r2, 2), r2, 2))

CosSeries(sgn, r1) ==
    IF r1 = <<>> THEN RoundToDouble(sgn, CosOne, -Prec)
    ELSE CosValue(sgn, BShr(BMul(r1, r1), Prec))

CosSign(k, refl) == XorSign(IF BIsOdd(k) THEN 1 ELSE 0, IF refl THEN 1 ELSE 0)

CosFold(k, r, refl) ==
    IF refl THEN CosSeries(CosSign(k, TRUE), BSub(PiFix, r))
    ELSE CosSeries(CosSign(k, FALSE), r)

CosRem(k, r) == CosFold(k, r, BLt(BShr(PiFix, 1), r))

CosQuot(yf, k) ==
    IF k = <<>> THEN CosRem(k, yf) ELSE CosRem(k, BSub(yf, BMul(k, PiFix)))

CosReduce(yf) == CosQuot(yf, BDiv(yf, PiFix))

CosDbl(y) == CosReduce(CosFix(y))

\* Bits kept of the running product of a power.
PowBits == 128

\* n * 2^e with n cut to its top PowBits bits, bl the bit length of n
PowCut(n, e, bl) ==
    IF bl > PowBits THEN [m |-> BShr(n, bl - PowBits), e |-> e + (bl - PowBits)]
    ELSE [m |-> n, e |-> e]

PowTrunc(n, e) == PowCut(n, e, BBitLen(n))

PowSquare(h) == PowTrunc(BMul(h.m, h.m), 2 * h.e)

PowTimes(sq, m, e) == PowTrunc(BMul(sq.m, m), sq.e + e)

\* m * 2^e to the power n >= 1 by squaring, each product cut to PowBits bits.
\* h = (m * 2^e)^(n \div 2) squared, and once more times m * 2^e for an odd n
PowStep(h, m, e, n) ==
    IF h.m = <<>> THEN h
    ELSE IF n % 2 = 1 THEN PowTimes(PowSquare(h), m, e)
    ELSE PowSquare(h)

RECURSIVE PowSq(_, _, _)
PowSq(m, e, n) ==
    IF n = 1 THEN [m |-> m, e |-> e]
    ELSE PowStep(PowSq(m, e, n \div 2), m, e, n)

PowRound(s, p) == RoundToDouble(s, p.m, p.e)

\* float ** n for a finite binary64 and an integer n >= 1: the power
\* rounded to nearest; an infinity when it overflows.
PowDbl(b, n) ==
    IF b.m = <<>> THEN DZero
    ELSE PowRound(IF n % 2 = 1 THEN b.s ELSE 0, PowSq(b.m, b.e, n))

(***************************************************************************)
(* Python objects.  An argument is [t, neg, mag]: its type, and for an int *)
(* or a bool its sign and magnitude (True is 1, False is 0).  Of an        *)
(* argument of another type only the type is ever read.                    *)
(***************************************************************************)
PyInt(neg, mag) == [t |-> "int", neg |-> neg /\ mag # <<>>, mag |-> mag]
IntV(n) == IF n < 0 THEN PyInt(TRUE, FromNat(-n)) ELSE PyInt(FALSE, FromNat(n))
PyTrue == [t |-> "bool", neg |-> FALSE, mag |-> BOne]
PyFloat == [t |-> "float", neg |-> FALSE, mag |-> FromNat(2)]
Unbound == [t |-> "unbound", neg |-> FALSE, mag |-> <<>>]

\* isinstance(v, int): bool is a subclass of int
IsInstanceInt(v) == v.t \in {"int", "bool"}

\* a < b, a + b and a - b on ints
IntLt(a, b) ==
    IF a.neg # b.neg THEN a.neg
    ELSE IF a.neg THEN BLt(b.mag, a.mag)
    ELSE BLt(a.mag, b.mag)

IntAdd(a, b) ==
    IF a.neg = b.neg THEN PyInt(a.neg, BAdd(a.mag, b.mag))
    ELSE IF BLe(b.mag, a.mag) THEN PyInt(a.neg, BSub(a.mag, b.mag))
    ELSE PyInt(b.neg, BSub(b.mag, a.mag))

IntSub(a, b) == IntAdd(a, PyInt(~b.neg, b.mag))

\* a == b on ints (True == 1)
IntEq(a, b) == a.neg = b.neg /\ a.mag = b.mag

(***************************************************************************)
(* Exceptions.  A raised exception travels through an expression as the    *)
(* value [k |-> "raise", type, msg]: an operation on it yields it.          *)
(***************************************************************************)
Raise(type, msg) == [k |-> "raise", type |-> type, msg |-> msg]

\* The messages of lines 23, 77, 79 and 81 are Chinese; they are given here
\* in English.
\* line 23
XError == Raise("ValueError", "x must be an integer >= 0")
\* line 77
StartError == Raise("ValueError", "start must be an integer >= 0")
\* line 79
EndError == Raise("ValueError", "end must be an integer")
\* line 81
OrderError == Raise("ValueError", "start must not be greater than end")
\* raised by the math module and by the int -> float conversion
DomainError == Raise("ValueError", "math domain error")
ConvError == Raise("OverflowError", "int too large to convert to float")
RangeError == Raise("OverflowError", "Numerical result out of range")

Unset == [k |-> "unset"]

\* float(v) for an int v, as every int operand of a float operation and every
\* int argument of math.sqrt, math.sin and math.cos is converted
Finite(d, e) == IF d.k = "inf" THEN e ELSE d

IntToFloat(v) ==
    Finite(RoundToDouble(IF v.neg THEN 1 ELSE 0, v.mag, 0), ConvError)

\* The float of an int literal and of a decimal literal n/d (0.3 is 3/10).
F(n) == IntToFloat(IntV(n))
Lit(n, d) == DDiv(F(n), F(d))

Exact(a) == a.k \in {"dbl", "inf", "nan"}

FAdd(a, b) ==
    IF a.k = "raise" THEN a
    ELSE IF b.k = "raise" THEN b
    ELSE IF Exact(a) /\ Exact(b) THEN DAdd(a, b)
    ELSE Sym("add", <<a, b>>)

FMul(a, b) ==
    IF a.k = "raise" THEN a
    ELSE IF b.k = "raise" THEN b
    ELSE IF Exact(a) /\ Exact(b) THEN DMul(a, b)
    ELSE Sym("mul", <<a, b>>)

FDiv(a, b) ==
    IF a.k = "raise" THEN a
    ELSE IF b.k = "raise" THEN b
    ELSE IF a.k = "dbl" /\ b.k = "dbl" THEN DDiv(a, b)
    ELSE Sym("div", <<a, b>>)

\* a ** n for a float a and an int literal n >= 1
FPow(a, n) ==
    IF a.k = "raise" THEN a
    ELSE IF a.k = "dbl"
         THEN Finite(PowDbl(a, n), RangeError)
    ELSE Sym("pow", <<a, F(n)>>)

\* math.sin, math.cos: a math domain error on an infinity
MathSin(a) ==
    IF a.k = "raise" THEN a
    ELSE IF a.k = "inf" THEN DomainError
    ELSE IF a.k = "nan" THEN NaN
    ELSE Sym("sin", <<a>>)

MathCos(a) ==
    IF a.k = "raise" THEN a
    ELSE IF a.k = "inf" THEN DomainError
    ELSE IF a.k = "nan" THEN NaN
    ELSE IF a.k = "dbl" /\ BBitLen(a.m) + a.e <= CosArgBits THEN CosDbl(a)
    ELSE Sym("cos", <<a>>)

\* math.sqrt: a math domain error below zero
MathSqrt(a) ==
    IF a.k = "raise" THEN a
    ELSE IF a.k = "dbl" /\ a.s = 1 THEN DomainError
    ELSE Sym("sqrt", <<a>>)

\* math.log of an int: any positive int, however large, has a logarithm
MathLog(v) ==
    IF v.neg \/ v.mag = <<>> THEN DomainError
    ELSE Sym("log", <<[k |-> "int", s |-> 0, m |-> v.mag]>>)

\* math.exp: its argument here is -3 * t ** 2, never large
MathExp(a) ==
    IF a.k = "raise" THEN a ELSE Sym("exp", <<a>>)


(***************************************************************************)
(* EnergyCalculator.calculate: the right-hand side of each assignment, of  *)
(* the argument x and of the locals l assigned before it.                  *)
(***************************************************************************)
\* line 22 without its second test
XNotInt(x) == ~IsInstanceInt(x)

\* line 22
XInvalid(x) == ~IsInstanceInt(x) \/ x.neg

\* line 26
Part1(x) == FAdd(F(35), FMul(F(15), MathSin(MathSqrt(IntToFloat(x)))))

\* line 31
LogCoefficient(x) == FMul(F(2), MathLog(IntAdd(x, IntV(1))))

\* lines 35, 36
TermABase(x) == FDiv(FAdd(MathSin(IntToFloat(x)), F(1)), F(2))
TermA(l) == FPow(l.term_a_base, 2000)

\* lines 40, 41
TermBBase(x) ==
    FDiv(FAdd(MathCos(FMul(IntToFloat(x), MathPi)), F(1)), F(2))
TermB(l) == FPow(l.term_b_base, 2200)

\* line 44
Part2(l) == FMul(l.log_coefficient, FAdd(l.term_a, l.term_b))

\* line 46
Part3(x) ==
    FAdd(FAdd(FAdd(F(48),
                   FMul(F(30), MathSin(FMul(IntToFloat(x), Lit(3, 10))))),
              FMul(F(12), MathCos(FMul(IntToFloat(x), Lit(9, 10))))),
         FMul(F(5), MathSin(FMul(IntToFloat(x), Lit(21, 10)))))

\* lines 50, 51
InnerSinTerm(x) ==
    MathSin(FMul(FDiv(MathPi, F(100000)), IntToFloat(IntSub(x, IntV(50)))))
ExponentTerm(l) == FMul(F(-3), FPow(l.inner_sin_term, 2))

\* lines 54, 56
CoefficientTerm(x) ==
    FAdd(F(800), FMul(F(150), MathSin(FMul(IntToFloat(x), Lit(1, 1000)))))
Part4(l) == FMul(l.coefficient_term, MathExp(l.exponent_term))

\* line 59
Energy(l) ==
    FAdd(FMul(Lit(1, 2), FAdd(l.part1, l.part2)),
         FMul(Lit(1, 10), FAdd(l.part3, l.part4)))

\* The locals of calculate, none assigned
NoLocals ==
    [n \in {"part1", "log_coefficient", "term_a_base", "term_a",
            "term_b_base", "term_b", "part2", "part3", "inner_sin_term",
            "exponent_term", "coefficient_term", "part4"} |-> Unset]

(***************************************************************************)
(* The arguments the client calls with.                                    *)
(***************************************************************************)
\* Small ints run over -1..MaxSmall.
MaxSmall == 2

SmallInts == {IntV(n) : n \in -1..MaxSmall}
Two28 == PyInt(FALSE, BShl(BOne, 28))
Two1023 == PyInt(FALSE, BShl(BOne, 1023))
Two1024 == PyInt(FALSE, BShl(BOne, 1024))

CalcArgs == SmallInts \cup {Two28, Two1023, Two1024, PyTrue, PyFloat}
RangeArgs == SmallInts \cup {Two1023, PyTrue, PyFloat}

\* A range that passes validation is called only when it has at most
\* MaxSmall + 1 elements.
SpanOK(s, e) ==
    (IsInstanceInt(s) /\ IsInstanceInt(e) /\ ~s.neg /\ ~IntLt(e, s))
        => ~IntLt(IntV(MaxSmall), IntSub(e, s))

(***************************************************************************)
(* calculate, statement by statement.  What a statement computes is a      *)
(* function of the argument and of the locals assigned before it.  S26 is  *)
(* the statement of line 26 evaluated for every int the client's calls can *)
(* pass to calculate, S31 the statement of line 31 evaluated wherever      *)
(* line 26 has not raised, and so on to the return of line 59; the steps   *)
(* of the machine read the values from these sets.                         *)
(***************************************************************************)
\* The ints among the client's arguments; the elements of a range are among
\* them, for a range's bounds are at most MaxSmall apart.
XDomain == {v \in CalcArgs \cup RangeArgs : IsInstanceInt(v)}

\* A statement evaluated: it found the argument and locals p and computed v.
Eval(p, v) == [x |-> p.x, frame |-> p.frame, value |-> v]

\* The argument and locals after the evaluations S of an assignment to name:
\* an evaluation that raised has none.
Assigned(S, name) ==
    {[x |-> s.x, frame |-> [s.frame EXCEPT ![name] = s.value]] :
        s \in {t \in S : t.value.k # "raise"}}

\* On entry no local is assigned.
S26 ==
    {Eval(p, Part1(p.x)) : p \in {[x |-> v, frame |-> NoLocals] : v \in XDomain}}
S31 == {Eval(p, LogCoefficient(p.x)) : p \in Assigned(S26, "part1")}
S35 == {Eval(p, TermABase(p.x)) : p \in Assigned(S31, "log_coefficient")}
S36 == {Eval(p, TermA(p.frame)) : p \in Assigned(S35, "term_a_base")}
S40 == {Eval(p, TermBBase(p.x)) : p \in Assigned(S36, "term_a")}
S41 == {Eval(p, TermB(p.frame)) : p \in Assigned(S40, "term_b_base")}
S44 == {Eval(p, Part2(p.frame)) : p \in Assigned(S41, "term_b")}
S46 == {Eval(p, Part3(p.x)) : p \in Assigned(S44, "part2")}
S50 == {Eval(p, InnerSinTerm(p.x)) : p \in Assigned(S46, "part3")}
S51 == {Eval(p, ExponentTerm(p.frame)) : p \in Assigned(S50, "inner_sin_term")}
S54 == {Eval(p, CoefficientTerm(p.x)) : p \in Assigned(S51, "exponent_term")}
S56 == {Eval(p, Part4(p.frame)) : p \in Assigned(S54, "coefficient_term")}
S59 == {Eval(p, Energy(p.frame)) : p \in Assigned(S56, "part4")}

\* The value a statement computes for the argument x and the locals l, S the
\* evaluations of the statement.
Value(S, x, l) == (CHOOSE s \in S : s.x = x /\ s.frame = l).value

(***************************************************************************)
(* The state.                                                              *)
(*   pc            the statement about to run ("c22" is line 22 of         *)
(*                 calculate, "r76" line 76 of calculate_range), "idle"    *)
(*                 between calls, "done" when the client's call has ended  *)
(*   call          the client's call: [op, a]                              *)
(*   cx, loc       calculate's frame: its argument and its locals          *)
(*   rx, it, results, energy_value   calculate_range's frame: rx is its   *)
(*                 local x, it the range iterator [nxt, stop]              *)
(*   outcome       how the client's call ended: [kind, v]                  *)
(*   attrs         the attributes of the EnergyCalculator instance         *)
(*   events        history: the evaluator invocations and the appends of   *)
(*                 the current call, in order                              *)
(*   memo          history: one earlier call and its outcome               *)
(***************************************************************************)
VARIABLES pc, call, cx, loc, rx, it, results, energy_value, outcome, attrs,
          events, memo

vars == <<pc, call, cx, loc, rx, it, results, energy_value, outcome, attrs,
          events, memo>>

NoCall == [op |-> "none", a |-> <<>>]
NoOutcome == [kind |-> "none", v |-> Unset]
NoIter == [nxt |-> Unbound, stop |-> Unbound]
NoMemo == [call |-> NoCall, outcome |-> NoOutcome]

Start == call.a[1]
End == call.a[2]

\* lines 12-15: __init__ sets no attribute
InitAttrs == {}

Init ==
    /\ pc = "idle"
    /\ call = NoCall
    /\ cx = Unbound
    /\ loc = NoLocals
    /\ rx = Unbound
    /\ it = NoIter
    /\ results = <<>>
    /\ energy_value = Unset
    /\ outcome = NoOutcome
    /\ attrs = InitAttrs
    /\ events = <<>>
    /\ memo = NoMemo

\* The client calls calculate(v).
CallCalculate ==
    /\ pc = "idle"
    /\ \E v \in CalcArgs :
          /\ call' = [op |-> "calculate", a |-> <<v>>]
          /\ cx' = v
    /\ pc' = "c22"
    /\ UNCHANGED <<loc, rx, it, results, energy_value, outcome, attrs, events, memo>>

\* The client calls calculate_range(s, e).
CallRange ==
    /\ pc = "idle"
    /\ \E s \in RangeArgs, e \in RangeArgs :
          /\ SpanOK(s, e)
          /\ call' = [op |-> "calculate_range", a |-> <<s, e>>]
    /\ pc' = "r76"
    /\ UNCHANGED <<cx, loc, rx, it, results, energy_value, outcome, attrs, events, memo>>

\* An exception leaves every frame: neither method catches anything.
Propagate(e) ==
    /\ outcome' = [kind |-> "raise", v |-> e]
    /\ pc' = "done"
    /\ UNCHANGED <<call, cx, loc, rx, it, results, energy_value, attrs, events, memo>>

\* line 22-23
C22 ==
    /\ pc = "c22"
    /\ IF XInvalid(cx) THEN Propagate(XError)
       ELSE /\ pc' = "c26"
            /\ UNCHANGED <<call, cx, loc, rx, it, results, energy_value,
                           outcome, attrs, events, memo>>

\* An assignment name = v of calculate at pc = at, followed by statement next.
Assign(at, name, v, next) ==
    /\ pc = at
    /\ IF v.k = "raise" THEN Propagate(v)
       ELSE /\ loc' = [loc EXCEPT ![name] = v]
            /\ pc' = next
            /\ UNCHANGED <<call, cx, rx, it, results, energy_value, outcome,
                           attrs, events, memo>>

C26 == Assign("c26", "part1", Value(S26, cx, loc), "c31")
C31 == Assign("c31", "log_coefficient", Value(S31, cx, loc), "c35")
C35 == Assign("c35", "term_a_base", Value(S35, cx, loc), "c36")
C36 == Assign("c36", "term_a", Value(S36, cx, loc), "c40")
C40 == Assign("c40", "term_b_base", Value(S40, cx, loc), "c41")
C41 == Assign("c41", "term_b", Value(S41, cx, loc), "c44")
C44 == Assign("c44", "part2", Value(S44, cx, loc), "c46")
C46 == Assign("c46", "part3", Value(S46, cx, loc), "c50")
C50 == Assign("c50", "inner_sin_term", Value(S50, cx, loc), "c51")
C51 == Assign("c51", "exponent_term", Value(S51, cx, loc), "c54")
C54 == Assign("c54", "coefficient_term", Value(S54, cx, loc), "c56")
C56 == Assign("c56", "part4", Value(S56, cx, loc), "c59")

\* line 59: return, to the client or to line 85 of calculate_range
Return(at, v) ==
    /\ pc = at
    /\ IF v.k = "raise" THEN Propagate(v)
       ELSE /\ cx' = Unbound
            /\ loc' = NoLocals
            /\ IF call.op = "calculate"
               THEN /\ outcome' = [kind |-> "return", v |-> v]
                    /\ pc' = "done"
                    /\ UNCHANGED energy_value
               ELSE /\ energy_value' = v
                    /\ pc' = "r86"
                    /\ UNCHANGED outcome
            /\ UNCHANGED <<call, rx, it, results, attrs, events, memo>>

C59 == Return("c59", Value(S59, cx, loc))

\* A check of calculate_range that fails only once the evaluator has been
\* invoked on start.
CheckLate(at, bad, e, next) ==
    /\ pc = at
    /\ IF bad
       THEN /\ outcome' = [kind |-> "raise", v |-> e]
            /\ pc' = "done"
            /\ events' = Append(events, [ev |-> "eval", x |-> Start])
            /\ UNCHANGED <<call, cx, loc, rx, it, results, energy_value,
                           attrs, memo>>
       ELSE /\ pc' = next
            /\ UNCHANGED <<call, cx, loc, rx, it, results, energy_value,
                           outcome, attrs, events, memo>>

\* A failed check of calculate_range at pc = at, else statement next.
Check(at, bad, e, next) ==
    /\ pc = at
    /\ IF bad THEN Propagate(e)
       ELSE /\ pc' = next
            /\ UNCHANGED <<call, cx, loc, rx, it, results, energy_value,
                           outcome, attrs, events, memo>>

\* lines 76-81
R76 == Check("r76", ~IsInstanceInt(Start) \/ Start.neg, StartError, "r78")
R78 == Check("r78", ~IsInstanceInt(End), EndError, "r80")
R80 == Check("r80", IntLt(End, Start), OrderError, "r83")

\* A results list that outlives the call: the list an earlier call returned.
StaleResults ==
    IF memo.call.op = "calculate_range" /\ memo.outcome.kind = "return"
    THEN memo.outcome.v ELSE <<>>

\* line 83
NewResults == <<>>

R83 ==
    /\ pc = "r83"
    /\ results' = NewResults
    /\ pc' = "r84"
    /\ UNCHANGED <<call, cx, loc, rx, it, energy_value, outcome, attrs, events, memo>>

\* range(start, end) and range(end + 1)
RangeIterShort(s, e) == [nxt |-> PyInt(s.neg, s.mag), stop |-> e]
RangeIterFromZero(s, e) == [nxt |-> IntV(0), stop |-> IntAdd(e, IntV(1))]

\* line 84: range(start, end + 1)
RangeIter(s, e) ==
    [nxt |-> PyInt(s.neg, s.mag), stop |-> IntAdd(e, IntV(1))]

R84 ==
    /\ pc = "r84"
    /\ it' = RangeIter(Start, End)
    /\ pc' = "r84n"
    /\ UNCHANGED <<call, cx, loc, rx, results, energy_value, outcome, attrs, events, memo>>

\* line 84: the next x, or the end of the loop
R84Next ==
    /\ pc = "r84n"
    /\ IF IntLt(it.nxt, it.stop)
       THEN /\ rx' = it.nxt
            /\ it' = [it EXCEPT !.nxt = IntAdd(it.nxt, IntV(1))]
            /\ pc' = "r85"
       ELSE /\ pc' = "r88"
            /\ UNCHANGED <<rx, it>>
    /\ UNCHANGED <<call, cx, loc, results, energy_value, outcome, attrs, events, memo>>

\* line 85: self.calculate(x)
R85 ==
    /\ pc = "r85"
    /\ cx' = rx
    /\ events' = Append(events, [ev |-> "eval", x |-> rx])
    /\ pc' = "c22"
    /\ UNCHANGED <<call, loc, rx, it, results, energy_value, outcome, attrs, memo>>

\* The pair (x, x)
PairOfX(x, e) == <<x, x>>

\* line 86: (x, energy_value)
Pair(x, e) == <<x, e>>

\* line 86
R86 ==
    /\ pc = "r86"
    /\ results' = Append(results, Pair(rx, energy_value))
    /\ events' = Append(events, [ev |-> "append", x |-> rx])
    /\ pc' = "r84n"
    /\ UNCHANGED <<call, cx, loc, rx, it, energy_value, outcome, attrs, memo>>

\* line 88
R88 ==
    /\ pc = "r88"
    /\ outcome' = [kind |-> "return", v |-> results]
    /\ pc' = "done"
    /\ UNCHANGED <<call, cx, loc, rx, it, results, energy_value, attrs, events, memo>>

\* The client has its result or its exception; both frames are gone.  The
\* call and its outcome may be remembered in memo, once.
Finish ==
    /\ pc = "done"
    /\ \E keep \in BOOLEAN :
          memo' = IF keep /\ memo = NoMemo
                  THEN [call |-> call, outcome |-> outcome]
                  ELSE memo
    /\ pc' = "idle"
    /\ call' = NoCall
    /\ cx' = Unbound
    /\ loc' = NoLocals
    /\ rx' = Unbound
    /\ it' = NoIter
    /\ results' = <<>>
    /\ energy_value' = Unset
    /\ outcome' = NoOutcome
    /\ events' = <<>>
    /\ UNCHANGED attrs

Next ==
    \/ CallCalculate
    \/ CallRange
    \/ C22 \/ C26 \/ C31 \/ C35 \/ C36 \/ C40 \/ C41 \/ C44
    \/ C46 \/ C50 \/ C51 \/ C54 \/ C56 \/ C59
    \/ R76 \/ R78 \/ R80 \/ R83 \/ R84 \/ R84Next \/ R85 \/ R86 \/ R88
    \/ Finish

Spec == Init /\ [][Next]_vars

(***************************************************************************)
(* Properties.                                                             *)
(***************************************************************************)
\* An argument as the int it compares equal to (True is 1).
AsInt(v) == PyInt(v.neg, v.mag)

IntLe(a, b) == ~IntLt(b, a)

\* The bounds calculate_range accepts: ints, 0 <= s <= e.
ValidBounds(s, e) ==
    IsInstanceInt(s) /\ IsInstanceInt(e) /\ ~s.neg /\ IntLe(s, e)

\* e - s + 1 for bounds the client calls with
Span(s, e) ==
    CHOOSE n \in 1..(MaxSmall + 1) :
        IntEq(IntAdd(s, IntV(n)), IntAdd(e, IntV(1)))

RangeDone == pc = "done" /\ call.op = "calculate_range"
CalcDone == pc = "done" /\ call.op = "calculate"
Returned == outcome.kind = "return"
Raised(e) == outcome.kind = "raise" /\ outcome.v = e

\* C1: calculate_range(start, end) with ints 0 <= start <= end returns
\* end - start + 1 pairs, the i-th (from 0) with x = start + i.
C1_LengthAndOrder ==
    (RangeDone /\ ValidBounds(Start, End)) =>
        /\ Returned
        /\ Len(outcome.v) = Span(Start, End)
        /\ \A i \in 1..Len(outcome.v) :
               IntEq(outcome.v[i][1], IntAdd(Start, IntV(i - 1)))

\* C2: every pair (x, e) calculate_range collects or returns has e equal to
\* what calculate(x) returned when the client called it on its own, and
\* calculate_range(n, n) returns the single pair (n, calculate(n)).
C2_PairsAreCalculate ==
    (/\ call.op = "calculate_range"
     /\ memo.call.op = "calculate"
     /\ memo.outcome.kind = "return") =>
        /\ \A i \in 1..Len(results) :
               IntEq(results[i][1], memo.call.a[1])
                   => results[i][2] = memo.outcome.v
        /\ (pc = "done" /\ Returned) =>
               /\ outcome.v = results
               /\ (IntEq(Start, End) /\ IntEq(Start, memo.call.a[1])) =>
                      outcome.v = <<<<AsInt(Start), memo.outcome.v>>>>

C2_Witness ==
    /\ RangeDone /\ Returned
    /\ Len(outcome.v) >= 2
    /\ memo.call.op = "calculate" /\ memo.outcome.kind = "return"
    /\ \E i \in 1..Len(outcome.v) : IntEq(outcome.v[i][1], memo.call.a[1])

\* C3: calculate(x) raises the ValueError of line 23 when x is not an int or
\* is negative, with no local of the formula assigned, and does not raise it
\* when x is an int >= 0 (a bool is an int).
C3_Validation ==
    CalcDone =>
        IF call.a[1].t \notin {"int", "bool"} \/ call.a[1].neg
        THEN Raised(XError) /\ loc = NoLocals
        ELSE ~Raised(XError)

C3_Witness == CalcDone /\ call.a[1] = IntV(-1) /\ Raised(XError)

\* C4: calculate_range ends in exactly one of four ways, decided in order:
\* the error of line 77 when start is not an int or is negative, else the
\* error of line 79 when end is not an int, else the error of line 81 when
\* start > end, else it returns.
C4_FourOutcomes ==
    RangeDone =>
        IF ~IsInstanceInt(Start) \/ Start.neg THEN Raised(StartError)
        ELSE IF ~IsInstanceInt(End) THEN Raised(EndError)
        ELSE IF IntLt(End, Start) THEN Raised(OrderError)
        ELSE Returned

\* C5: when a check of calculate_range's bounds fails, calculate has not been
\* invoked and no pair has been appended; with bounds that fail a check
\* neither ever happens.
C5_FailFast ==
    call.op = "calculate_range" =>
        /\ (outcome.kind = "raise"
            /\ outcome.v \in {StartError, EndError, OrderError})
               => events = <<>> /\ results = <<>>
        /\ ~ValidBounds(Start, End) => events = <<>> /\ results = <<>>

C5_Witness == RangeDone /\ Raised(OrderError) /\ events = <<>>

\* C6: calculate(x) returns a value for every int x >= 0.
C6_ArithmeticNeverFails ==
    (CalcDone /\ IsInstanceInt(call.a[1]) /\ ~call.a[1].neg) => Returned

\* C7: once term_b is assigned it is 1.0 for an even x and 0.0 for an odd x.
C7_SpikeIsZeroOrOne ==
    pc = "c44" =>
        loc.term_b = IF BIsOdd(cx.mag) THEN DZero ELSE F(1)

\* C8: the instance has no attribute, and a call repeated after any calls in
\* between ends as it ended before: the same value, list or exception.
C8_Deterministic ==
    /\ attrs = InitAttrs
    /\ (pc = "done" /\ call = memo.call) => outcome = memo.outcome

C8_Witness ==
    /\ RangeDone /\ Returned
    /\ call = memo.call
    /\ Len(outcome.v) >= 2

\* C9: the invocations of calculate and the appends of a calculate_range
\* call are calculate(start), append, calculate(start + 1), append, ... in
\* this order, none before the bounds are checked, and when the call returns
\* they have run through end.
C9_EvaluationOrder ==
    call.op = "calculate_range" =>
        /\ pc \in {"r76", "r78", "r80", "r83", "r84"} => events = <<>>
        /\ \A j \in 1..Len(events) :
               events[j] =
                   [ev |-> IF j % 2 = 1 THEN "eval" ELSE "append",
                    x |-> IntAdd(Start, IntV((j - 1) \div 2))]
        /\ (pc = "done" /\ Returned) =>
               Len(events) = 2 * Span(Start, End)

C9_Witness == RangeDone /\ Returned /\ Len(events) >= 4

\* C10: every x calculate_range passes to calculate is an int with
\* 0 <= x and start <= x <= end, and calculate_range never ends with the
\* ValueError of line 23.
C10_LoopArgumentsValid ==
    call.op = "calculate_range" =>
        /\ pc \in {"r85", "c22"} =>
               /\ rx.t = "int"
               /\ ~rx.neg
               /\ IntLe(Start, rx)
               /\ IntLe(rx, End)
        /\ pc = "c22" => cx = rx
        /\ ~Raised(XError)

C10_Witness ==
    /\ call.op = "calculate_range"
    /\ pc = "c22"
    /\ Len(events) >= 3
====
